---- MODULE Spec2Model ----
(***************************************************************************)
(* Model of package render (src/render.go): the renderer registry, the     *)
(* Accept-header negotiation of Render, the JSON renderer and the status   *)
(* helper (handlerHelper) with its per-status operations.                  *)
(*                                                                         *)
(* A Go string is modelled as a sequence of tokens; "," and ";" are tokens *)
(* of their own and no other token contains either of them, so that        *)
(* strings.Split and strings.Join are computed on the sequence exactly as  *)
(* on the bytes.                                                           *)
(***************************************************************************)
EXTENDS Naturals, Sequences, FiniteSets

VARIABLES
    register,               \* var register map[string]Renderer
    registeredContentType,  \* var registeredContentType []string
    now,                    \* the last reading of the wall clock (time.Now())
    op,                     \* the operation the caller is in or has just returned from, or "idle"
    in,                     \* its arguments
    out,                    \* its outcome: response stream, returned error, Renderer calls made
    prev,                   \* outcome of the first call when the caller has just made the
                            \* same call a second time, else empty
    registrations,          \* history: the Register calls made so far, init()'s included
    depth,                  \* live frames of handlerHelper.Render
    crashed                 \* the Go runtime aborted the process (stack overflow)

vars == <<register, registeredContentType, now, op, in, out, prev, registrations, depth, crashed>>

\* the nil error
Nil == <<>>

(***************************************************************************)
(* Bounds.                                                                 *)
(***************************************************************************)
MaxRegister == 2     \* Register calls after init()
MaxCands    == 2     \* comma-separated candidates in an Accept header
MaxArgs     == 2     \* variadic arguments of a 4xx/5xx operation
MaxTime     == 2     \* clock readings
MaxDepth    == 3     \* frames the goroutine stack holds before it overflows

(***************************************************************************)
(* net/http status constants used by the package.                          *)
(***************************************************************************)
http_StatusOK                  == 200
http_StatusCreated             == 201
http_StatusAccepted            == 202
http_StatusBadRequest          == 400
http_StatusUnauthorized        == 401
http_StatusForbidden           == 403
http_StatusNotFound            == 404
http_StatusMethodNotAllowed    == 405
http_StatusNotAcceptable       == 406
http_StatusInternalServerError == 500
http_StatusServiceUnavailable  == 503

(***************************************************************************)
(* Strings.                                                                *)
(***************************************************************************)
J  == "application/json"
W  == "*/*"
Q1 == "q=0.1"
Q9 == "q=0.9"

RECURSIVE Split(_, _)
\* strings.Split(s, sep) for a one-token separator
Split(s, sep) ==
    IF \A i \in 1..Len(s) : s[i] # sep
    THEN <<s>>
    ELSE LET i == CHOOSE k \in 1..Len(s) :
                      s[k] = sep /\ \A j \in 1..(k-1) : s[j] # sep
         IN  <<SubSeq(s, 1, i-1)>> \o Split(SubSeq(s, i+1, Len(s)), sep)

RECURSIVE Join(_, _)
\* strings.Join(elems, sep)
Join(elems, sep) ==
    IF elems = <<>> THEN <<>>
    ELSE IF Len(elems) = 1 THEN elems[1]
    ELSE elems[1] \o <<sep>> \o Join(Tail(elems), sep)

\* fmt.Sprint(args...) instead: the operands are strings, which Sprint does not space
SprintArgsSpread(args) == [i \in 1..Len(args) |-> args[i]]

\* fmt.Sprint(args) of the one operand args, a []interface{}: "[a b c]"
SprintArgs(args) ==
    <<"[">> \o Join([i \in 1..Len(args) |-> <<args[i]>>], " ") \o <<"]">>

\* fmt.Sprint(a, b) of two string operands: no space is added between strings
SprintStrings(a, b) == a \o b

\* mkerror(callDepth, msg)
mkerror(callDepth, msg) == [kind |-> "Error", Message |-> msg]

(***************************************************************************)
(* The response stream (http.ResponseWriter): headers, status line, body,  *)
(* and the order in which the three were touched.                          *)
(***************************************************************************)
Fresh == [header |-> <<>>, status |-> 0, body |-> <<>>, log |-> <<>>]

\* w.Header().Set(key, value)
HeaderSet(w, key, value) ==
    [w EXCEPT !.header = [k \in DOMAIN w.header \cup {key} |->
                              IF k = key THEN value ELSE w.header[k]],
              !.log = Append(@, <<"Header.Set", key>>)]

\* w.WriteHeader(code): the first status line written is the one sent
WriteHeader(w, code) ==
    [w EXCEPT !.status = IF @ = 0 THEN code ELSE @,
              !.log = Append(@, <<"WriteHeader">>)]

\* w.Write(bytes)
Write(w, bytes) ==
    [w EXCEPT !.status = IF @ = 0 THEN http_StatusOK ELSE @,
              !.body = @ \o bytes,
              !.log = Append(@, <<"Write">>)]

\* time.Now().Format(time.RFC1123Z)
FormatRFC1123Z(t) == <<"RFC1123Z", t>>

\* json.NewEncoder(w).Encode(obj): the document and a newline, or an error
\* with nothing written (a channel has no JSON form)
json_Encode(obj) ==
    CASE obj.kind = "Error" ->
           [ok |-> TRUE, err |-> Nil,
            bytes |-> <<"{\"message\":\"">> \o obj.Message \o <<"\"}", "\n">>]
      [] obj.kind = "map" ->
           [ok |-> TRUE, err |-> Nil,
            bytes |-> <<"{\"id\":", obj.id, "}", "\n">>]
      [] OTHER ->
           [ok |-> FALSE, err |-> <<"json: unsupported type">>, bytes |-> <<>>]

\* errgo.Mask(err)
errgo_Mask(err) == <<"errgo.Mask">> \o err

\* JSON.Render that encodes before it commits the status, to answer 500 on failure
JSONRenderEncodeFirst(w, httpCode, obj, t) ==
    LET w1  == HeaderSet(w, "Content-Type", <<"application/json;charset=utf-8">>)
        w2  == HeaderSet(w1, "Date", FormatRFC1123Z(t))
        enc == json_Encode(obj)
    IN  IF enc.ok
        THEN [w |-> Write(WriteHeader(w2, httpCode), enc.bytes), err |-> Nil]
        ELSE [w |-> WriteHeader(w2, http_StatusInternalServerError),
              err |-> errgo_Mask(enc.err)]

\* JSON.Render that also stamps the body with the time of the call
JSONRenderStamped(w, httpCode, obj, t) ==
    LET w1  == HeaderSet(w, "Content-Type", <<"application/json;charset=utf-8">>)
        w2  == HeaderSet(w1, "Date", FormatRFC1123Z(t))
        w3  == WriteHeader(w2, httpCode)
        enc == json_Encode(obj)
    IN  IF enc.ok
        THEN [w |-> Write(w3, enc.bytes \o FormatRFC1123Z(t)), err |-> Nil]
        ELSE [w |-> w3, err |-> errgo_Mask(enc.err)]

\* func (s *JSON) Render
JSONRender(w, httpCode, obj, t) ==
    LET w1  == HeaderSet(w, "Content-Type", <<"application/json;charset=utf-8">>)
        w2  == HeaderSet(w1, "Date", FormatRFC1123Z(t))
        w3  == WriteHeader(w2, httpCode)
        enc == json_Encode(obj)
    IN  IF enc.ok
        THEN [w |-> Write(w3, enc.bytes), err |-> Nil]
        ELSE [w |-> w3, err |-> errgo_Mask(enc.err)]

\* A Renderer implemented by a user of the package ("R1"): it writes its own
\* content type, the status and a body, and fails on a payload it cannot render.
CustomRender(w, httpCode, obj, t) ==
    LET w1 == HeaderSet(w, "Content-Type", <<"text/xml">>)
        w2 == WriteHeader(w1, httpCode)
    IN  IF obj.kind = "chan"
        THEN [w |-> w2, err |-> <<"R1: cannot render">>]
        ELSE [w |-> Write(w2, <<"<R1/>">>), err |-> Nil]

\* var DefaultJSON = new(JSON)
DefaultJSON == "DefaultJSON"

\* handler.Render(w, r, httpStatus, obj) through the Renderer interface; the
\* call and what it returned are logged in calls
Invoke(by, handler, w, httpStatus, obj, t) ==
    LET res == IF handler \in {"JSON", DefaultJSON}
               THEN JSONRender(w, httpStatus, obj, t)
               ELSE CustomRender(w, httpStatus, obj, t)
    IN  [w |-> res.w, err |-> res.err,
         calls |-> <<[by |-> by, r |-> handler, httpStatus |-> httpStatus,
                      obj |-> obj, ret |-> res.err]>>]

(***************************************************************************)
(* Registry.                                                               *)
(***************************************************************************)
\* Register that keeps the first binding of a content type
RegisterInKeepFirst(reg, contentType, handler) ==
    [map   |-> [k \in DOMAIN reg.map \cup {contentType} |->
                   IF k \in DOMAIN reg.map THEN reg.map[k] ELSE handler],
     order |-> Append(reg.order, contentType)]

\* Register that binds the renderer and leaves the order list alone
RegisterInMapOnly(reg, contentType, handler) ==
    [map   |-> [k \in DOMAIN reg.map \cup {contentType} |->
                   IF k = contentType THEN handler ELSE reg.map[k]],
     order |-> reg.order]

\* the body of Register on a registry value
RegisterIn(reg, contentType, handler) ==
    [map   |-> [k \in DOMAIN reg.map \cup {contentType} |->
                   IF k = contentType THEN handler ELSE reg.map[k]],
     order |-> Append(reg.order, contentType)]

\* func init(): the two startup registrations on the empty registry
init ==
    RegisterIn(RegisterIn([map |-> <<>>, order |-> <<>>], <<J>>, "JSON"), <<W>>, "JSON")

(***************************************************************************)
(* Negotiation.                                                            *)
(***************************************************************************)
RECURSIVE TrimLeft(_)
TrimLeft(s) == IF s # <<>> /\ s[1] = " " THEN TrimLeft(Tail(s)) ELSE s

\* the lookup key with strings.TrimSpace applied
contentTypeOfTrimmed(accept) == TrimLeft(Split(accept, ";")[1])

\* contentType := strings.Split(accept, ";")[0]
contentTypeOf(accept) == Split(accept, ";")[1]

\* the lookup keys of strings.Split(accepts, ","), in header order
acceptKeys(accepts) ==
    LET parts == Split(accepts, ",")
    IN  [i \in 1..Len(parts) |-> contentTypeOf(parts[i])]

\* a loop that does not return at the first hit: the last registered key wins
lastRegistered(keys) ==
    IF \E i \in 1..Len(keys) : keys[i] \in DOMAIN register
    THEN CHOOSE i \in 1..Len(keys) :
             /\ keys[i] \in DOMAIN register
             /\ \A j \in (i+1)..Len(keys) : keys[j] \notin DOMAIN register
    ELSE 0

\* the loop of Render: index of the first key found in register, 0 when none is
firstRegistered(keys) ==
    IF \E i \in 1..Len(keys) : keys[i] \in DOMAIN register
    THEN CHOOSE i \in 1..Len(keys) :
             /\ keys[i] \in DOMAIN register
             /\ \A j \in 1..(i-1) : keys[j] \notin DOMAIN register
    ELSE 0

RECURSIVE Dedup(_)
Dedup(s) ==
    IF s = <<>> THEN <<>>
    ELSE LET r == Dedup(SubSeq(s, 1, Len(s) - 1))
         IN  IF \E i \in 1..Len(r) : r[i] = s[Len(s)] THEN r ELSE Append(r, s[Len(s)])

\* a 406 message that names each registered content type once
notAcceptableMessageOnce ==
    SprintStrings(<<"Accept header must be set to one of ">>,
                  Join(Dedup(registeredContentType), ","))

\* the message of the 406 response
notAcceptableMessage ==
    SprintStrings(<<"Accept header must be set to one of ">>,
                  Join(registeredContentType, ","))

\* func Render
Render(w, accepts, httpStatus, obj, t) ==
    LET keys == acceptKeys(accepts)
        i    == firstRegistered(keys)
    IN  IF i # 0
        THEN Invoke("Render", register[keys[i]], w, httpStatus, obj, t)
        ELSE Invoke("Render", DefaultJSON, w, http_StatusNotAcceptable,
                    mkerror(1, notAcceptableMessage), t)

(***************************************************************************)
(* Status helper.                                                          *)
(***************************************************************************)
\* func New(r Renderer) StatusRenderer
New(r) == [r |-> r]

\* var DefaultStatusRenderer = handlerHelper{&moduleRender{}}
DefaultStatusRenderer == [r |-> "moduleRender"]

\* func (h *moduleRender) Render
moduleRender_Render(w, accepts, httpStatus, obj, t) ==
    Render(w, accepts, httpStatus, obj, t)

\* h.r.Render(w, r, httpStatus, obj) through the Renderer interface, logged
WrappedRender(h, w, accepts, httpStatus, obj, t) ==
    IF h.r = "moduleRender"
    THEN LET res == moduleRender_Render(w, accepts, httpStatus, obj, t)
         IN  [w |-> res.w, err |-> res.err,
              calls |-> <<[by |-> "handlerHelper", r |-> h.r, httpStatus |-> httpStatus,
                           obj |-> obj, ret |-> res.err]>> \o res.calls]
    ELSE Invoke("handlerHelper", h.r, w, httpStatus, obj, t)

handlerHelper_StatusOK(h, w, accepts, obj, t) ==
    WrappedRender(h, w, accepts, http_StatusOK, obj, t)
handlerHelper_StatusCreated(h, w, accepts, obj, t) ==
    WrappedRender(h, w, accepts, http_StatusCreated, obj, t)
handlerHelper_StatusAccepted(h, w, accepts, obj, t) ==
    WrappedRender(h, w, accepts, http_StatusAccepted, obj, t)
handlerHelper_StatusBadRequest(h, w, accepts, args, t) ==
    WrappedRender(h, w, accepts, http_StatusBadRequest, mkerror(1, SprintArgs(args)), t)
handlerHelper_StatusUnauthorized(h, w, accepts, args, t) ==
    WrappedRender(h, w, accepts, http_StatusUnauthorized, mkerror(1, SprintArgs(args)), t)
handlerHelper_StatusForbidden(h, w, accepts, args, t) ==
    WrappedRender(h, w, accepts, http_StatusForbidden, mkerror(1, SprintArgs(args)), t)
handlerHelper_StatusMethodNotAllowed(h, w, accepts, args, t) ==
    WrappedRender(h, w, accepts, http_StatusMethodNotAllowed, mkerror(1, SprintArgs(args)), t)
\* StatusNotFound pasted from StatusMethodNotAllowed with the constant left in
handlerHelper_StatusNotFoundPasted(h, w, accepts, args, t) ==
    WrappedRender(h, w, accepts, http_StatusMethodNotAllowed, mkerror(1, SprintArgs(args)), t)
handlerHelper_StatusNotFound(h, w, accepts, args, t) ==
    WrappedRender(h, w, accepts, http_StatusNotFound, mkerror(1, SprintArgs(args)), t)
handlerHelper_InternalServerError(h, w, accepts, args, t) ==
    WrappedRender(h, w, accepts, http_StatusInternalServerError, mkerror(1, SprintArgs(args)), t)
handlerHelper_ServiceUnavailable(h, w, accepts, args, t) ==
    WrappedRender(h, w, accepts, http_StatusServiceUnavailable, mkerror(1, SprintArgs(args)), t)

Ops2xx == {"StatusOK", "StatusCreated", "StatusAccepted"}
OpsErr == {"StatusBadRequest", "StatusUnauthorized", "StatusForbidden",
           "StatusMethodNotAllowed", "StatusNotFound", "InternalServerError",
           "ServiceUnavailable"}
StatusOps == Ops2xx \cup OpsErr

\* the status operation called name, on its payload (2xx) or its arguments (4xx, 5xx)
StatusOp(name, h, w, accepts, x, t) ==
    CASE name = "StatusOK"               -> handlerHelper_StatusOK(h, w, accepts, x, t)
      [] name = "StatusCreated"          -> handlerHelper_StatusCreated(h, w, accepts, x, t)
      [] name = "StatusAccepted"         -> handlerHelper_StatusAccepted(h, w, accepts, x, t)
      [] name = "StatusBadRequest"       -> handlerHelper_StatusBadRequest(h, w, accepts, x, t)
      [] name = "StatusUnauthorized"     -> handlerHelper_StatusUnauthorized(h, w, accepts, x, t)
      [] name = "StatusForbidden"        -> handlerHelper_StatusForbidden(h, w, accepts, x, t)
      [] name = "StatusMethodNotAllowed" -> handlerHelper_StatusMethodNotAllowed(h, w, accepts, x, t)
      [] name = "StatusNotFound"         -> handlerHelper_StatusNotFound(h, w, accepts, x, t)
      [] name = "InternalServerError"    -> handlerHelper_InternalServerError(h, w, accepts, x, t)
      [] name = "ServiceUnavailable"     -> handlerHelper_ServiceUnavailable(h, w, accepts, x, t)

(***************************************************************************)
(* Inputs.                                                                 *)
(***************************************************************************)
\* Accept headers: none (Header.Get gives ""), or up to MaxCands candidates
Cands         == {<<J>>, <<J, ";", Q1>>, <<W, ";", Q9>>, <<" ", W>>}
Accepts       == {Join(cs, ",") : cs \in UNION {[1..n -> Cands] : n \in 0..MaxCands}}
HelperAccepts == {<<>>, <<J>>}
Payloads      == {[kind |-> "map", id |-> "7"], [kind |-> "chan"]}
Statuses      == {http_StatusCreated, http_StatusNotFound}
\* what callers register: either renderer for application/json, and a renderer
\* of their own for " */*" and for the empty string
Registrable   == {[contentType |-> <<J>>, handler |-> "JSON"],
                  [contentType |-> <<J>>, handler |-> "R1"],
                  [contentType |-> <<" ", W>>, handler |-> "R1"],
                  [contentType |-> <<>>, handler |-> "R1"]}
Helpers       == {DefaultStatusRenderer, New("R1")}
ArgValues     == {"missing", "field"}
ArgLists      == UNION {[1..n -> ArgValues] : n \in 0..MaxArgs}

NoInput   == <<>>
NoOutcome == [w |-> Fresh, err |-> Nil, calls |-> <<>>]

(***************************************************************************)
(* Operations.  One caller: it makes a call on a fresh response stream,    *)
(* the call returns, and the caller finishes with it before the next call. *)
(***************************************************************************)
Init ==
    /\ register = init.map
    /\ registeredContentType = init.order
    /\ registrations = <<[contentType |-> <<J>>, handler |-> "JSON"],
                         [contentType |-> <<W>>, handler |-> "JSON"]>>
    /\ now = 1
    /\ op = "idle"
    /\ in = NoInput
    /\ out = NoOutcome
    /\ prev = <<>>
    /\ depth = 0
    /\ crashed = FALSE

\* the caller is done with the call it made
Finish ==
    /\ op # "idle" /\ depth = 0 /\ ~crashed
    /\ op' = "idle"
    /\ in' = NoInput
    /\ out' = NoOutcome
    /\ prev' = <<>>
    /\ UNCHANGED <<register, registeredContentType, now, registrations, depth, crashed>>

\* func Register
Register(contentType, handler) ==
    LET reg == RegisterIn([map |-> register, order |-> registeredContentType],
                          contentType, handler)
    IN  /\ op = "idle"
        /\ Len(registeredContentType) < Len(init.order) + MaxRegister
        /\ register' = reg.map
        /\ registeredContentType' = reg.order
        /\ registrations' = Append(registrations,
                                   [contentType |-> contentType, handler |-> handler])
        /\ op' = "Register"
        /\ in' = [contentType |-> contentType, handler |-> handler,
                  warning |-> contentType \in DOMAIN register]
        /\ out' = NoOutcome
        /\ UNCHANGED <<now, prev, depth, crashed>>

\* the clock readings a call can get: time does not run backwards
Clock == now..MaxTime

\* a call made at time t returns: its outcome is recorded, the registry is only read
Returns(name, input, t, result) ==
    /\ op' = name
    /\ in' = input
    /\ now' = t
    /\ out' = result
    /\ prev' = <<>>
    /\ UNCHANGED <<register, registeredContentType, registrations, depth, crashed>>

\* render.Render(w, r, httpStatus, obj)
CallRender(accepts, httpStatus, obj) ==
    /\ op = "idle"
    /\ \E t \in Clock :
           Returns("Render", [accepts |-> accepts, httpStatus |-> httpStatus, obj |-> obj],
                   t, Render(Fresh, accepts, httpStatus, obj, t))

\* a status operation of the helper h returns
StatusReturns(name, h, accepts, x) ==
    \E t \in Clock :
        Returns(name, [h |-> h, accepts |-> accepts, x |-> x],
                t, StatusOp(name, h, Fresh, accepts, x, t))

\* The status operations of a helper h; those of DefaultStatusRenderer are also
\* what the package's StatusOK ... StatusNotFound run.
StatusOK(h, accepts, obj) ==
    /\ op = "idle"
    /\ StatusReturns("StatusOK", h, accepts, obj)
StatusCreated(h, accepts, obj) ==
    /\ op = "idle"
    /\ StatusReturns("StatusCreated", h, accepts, obj)
StatusAccepted(h, accepts, obj) ==
    /\ op = "idle"
    /\ StatusReturns("StatusAccepted", h, accepts, obj)
StatusBadRequest(h, accepts, args) ==
    /\ op = "idle"
    /\ StatusReturns("StatusBadRequest", h, accepts, args)
StatusUnauthorized(h, accepts, args) ==
    /\ op = "idle"
    /\ StatusReturns("StatusUnauthorized", h, accepts, args)
StatusForbidden(h, accepts, args) ==
    /\ op = "idle"
    /\ StatusReturns("StatusForbidden", h, accepts, args)
StatusMethodNotAllowed(h, accepts, args) ==
    /\ op = "idle"
    /\ StatusReturns("StatusMethodNotAllowed", h, accepts, args)
StatusNotFound(h, accepts, args) ==
    /\ op = "idle"
    /\ StatusReturns("StatusNotFound", h, accepts, args)
InternalServerError(h, accepts, args) ==
    /\ op = "idle"
    /\ StatusReturns("InternalServerError", h, accepts, args)
ServiceUnavailable(h, accepts, args) ==
    /\ op = "idle"
    /\ StatusReturns("ServiceUnavailable", h, accepts, args)

\* the caller makes the status call it has just made once more, with the same
\* request and arguments, on another fresh response stream
Again ==
    /\ op \in StatusOps
    /\ \E t \in Clock :
           /\ now' = t
           /\ out' = StatusOp(op, in.h, Fresh, in.accepts, in.x, t)
    /\ prev' = <<out>>
    /\ UNCHANGED <<register, registeredContentType, op, in, registrations, depth, crashed>>

\* func (h *handlerHelper) Render: entered by a caller
HelperRender(h, accepts, httpStatus, obj) ==
    /\ op = "idle"
    /\ op' = "handlerHelper.Render"
    /\ in' = [h |-> h, accepts |-> accepts, httpStatus |-> httpStatus, obj |-> obj]
    /\ out' = NoOutcome
    /\ depth' = 1
    /\ UNCHANGED <<register, registeredContentType, now, prev, registrations, crashed>>

\* its body, return h.Render(w, r, httpStatus, obj): one more frame of itself
HelperRenderBody ==
    /\ depth >= 1 /\ depth < MaxDepth /\ ~crashed
    /\ depth' = depth + 1
    /\ UNCHANGED <<register, registeredContentType, now, op, in, out, prev, registrations, crashed>>

\* the stack is exhausted: the runtime ends the process
StackOverflow ==
    /\ depth >= MaxDepth /\ ~crashed
    /\ crashed' = TRUE
    /\ UNCHANGED <<register, registeredContentType, now, op, in, out, prev, registrations, depth>>

Next ==
    \/ Finish
    \/ \E c \in Registrable : Register(c.contentType, c.handler)
    \/ \E accepts \in Accepts, httpStatus \in Statuses, obj \in Payloads :
           CallRender(accepts, httpStatus, obj)
    \/ \E h \in Helpers, accepts \in HelperAccepts, obj \in Payloads : StatusOK(h, accepts, obj)
    \/ \E h \in Helpers, accepts \in HelperAccepts, obj \in Payloads : StatusCreated(h, accepts, obj)
    \/ \E h \in Helpers, accepts \in HelperAccepts, obj \in Payloads : StatusAccepted(h, accepts, obj)
    \/ \E h \in Helpers, accepts \in HelperAccepts, args \in ArgLists :
           StatusBadRequest(h, accepts, args)
    \/ \E h \in Helpers, accepts \in HelperAccepts, args \in ArgLists :
           StatusUnauthorized(h, accepts, args)
    \/ \E h \in Helpers, accepts \in HelperAccepts, args \in ArgLists :
           StatusForbidden(h, accepts, args)
    \/ \E h \in Helpers, accepts \in HelperAccepts, args \in ArgLists :
           StatusMethodNotAllowed(h, accepts, args)
    \/ \E h \in Helpers, accepts \in HelperAccepts, args \in ArgLists :
           StatusNotFound(h, accepts, args)
    \/ \E h \in Helpers, accepts \in HelperAccepts, args \in ArgLists :
           InternalServerError(h, accepts, args)
    \/ \E h \in Helpers, accepts \in HelperAccepts, args \in ArgLists :
           ServiceUnavailable(h, accepts, args)
    \/ \E h \in Helpers, accepts \in HelperAccepts, httpStatus \in Statuses, obj \in Payloads :
           HelperRender(h, accepts, httpStatus, obj)
    \/ HelperRenderBody
    \/ StackOverflow
    \/ Again

Spec == Init /\ [][Next]_vars

(***************************************************************************)
(* Properties.                                                             *)
(***************************************************************************)
Last(seq) == seq[Len(seq)]

\* the lookup keys of the Accept header of the call in op, in header order
Keys == acceptKeys(in.accepts)

\* candidate i is the first one whose key is registered
FirstHit(i) ==
    /\ i \in 1..Len(Keys)
    /\ Keys[i] \in DOMAIN register
    /\ \A j \in 1..(i-1) : Keys[j] \notin DOMAIN register

NoHit == \A i \in 1..Len(Keys) : Keys[i] \notin DOMAIN register

\* C1: Render dispatches to exactly one renderer, the one bound to the first
\* candidate whose key is registered, with the caller's status code and payload,
\* and returns what that renderer returned; later matching candidates are not
\* dispatched to.
C1_FirstMatchDispatch ==
    op = "Render" =>
        \A i \in 1..Len(Keys) :
            FirstHit(i) =>
                /\ out.calls = <<[by |-> "Render", r |-> register[Keys[i]],
                                  httpStatus |-> in.httpStatus, obj |-> in.obj,
                                  ret |-> out.err]>>
                /\ out.w.status = in.httpStatus

\* C1 witness: two candidates match, bound to different renderers, and the call
\* went to the first one's
C1_Witness ==
    /\ op = "Render"
    /\ \E i, j \in 1..Len(Keys) :
           /\ FirstHit(i) /\ i < j /\ Keys[j] \in DOMAIN register
           /\ register[Keys[i]] # register[Keys[j]]
           /\ out.calls[1].r = register[Keys[i]]

RECURSIVE CommaList(_)
\* the entries of a list written one after the other with a "," between neighbours
CommaList(list) ==
    IF Len(list) = 0 THEN <<>>
    ELSE IF Len(list) = 1 THEN list[1]
    ELSE CommaList(SubSeq(list, 1, Len(list) - 1)) \o <<",">> \o Last(list)

\* C2: when no candidate is a registry key, Render calls only the default JSON
\* renderer, with status 406 and an Error whose message is the fixed prefix and
\* the registration order list comma-joined, duplicates kept, and returns its
\* result, which is nil.
C2_NotAcceptable ==
    (op = "Render" /\ NoHit) =>
        LET msg == <<"Accept header must be set to one of ">>
                       \o CommaList(registeredContentType)
        IN  /\ out.calls = <<[by |-> "Render", r |-> DefaultJSON, httpStatus |-> 406,
                              obj |-> [kind |-> "Error", Message |-> msg],
                              ret |-> out.err]>>
            /\ out.err = Nil
            /\ out.w.status = 406
            /\ out.w.body = <<"{\"message\":\"">> \o msg \o <<"\"}", "\n">>

\* C2 witness: a 406 answer to an empty Accept header, for a caller that asked for
\* another status, while a content type is in the order list twice
C2_Witness ==
    /\ op = "Render" /\ NoHit
    /\ in.accepts = <<>>
    /\ in.httpStatus # 406
    /\ Len(registeredContentType) > Cardinality(DOMAIN register)
    /\ out.w.status = 406

\* the Register calls made for contentType, in the order made
RegistrationsOf(contentType) ==
    SelectSeq(registrations, LAMBDA c : c.contentType = contentType)

\* C3: the renderer bound to a content type is the one of the most recent Register
\* call for it, a Render that matches on it dispatches to that renderer, the order
\* list holds it once per Register call made for it, and no binding is removed.
C3_LastRegistrationWins ==
    /\ DOMAIN register = {registrations[i].contentType : i \in 1..Len(registrations)}
    /\ \A ct \in DOMAIN register :
           /\ register[ct] = Last(RegistrationsOf(ct)).handler
           /\ Len(SelectSeq(registeredContentType, LAMBDA c : c = ct))
                  = Len(RegistrationsOf(ct))
    /\ op = "Render" =>
           \A i \in 1..Len(Keys) :
               FirstHit(i) => out.calls[1].r = Last(RegistrationsOf(Keys[i])).handler

\* C3 witness: application/json was registered again over its startup binding with
\* another renderer, and a Render matching on it was served by that renderer
C3_Witness ==
    /\ op = "Render"
    /\ FirstHit(1) /\ Keys[1] = <<J>>
    /\ Len(RegistrationsOf(<<J>>)) >= 2
    /\ RegistrationsOf(<<J>>)[1].handler # Last(RegistrationsOf(<<J>>)).handler
    /\ out.calls[1].r = Last(RegistrationsOf(<<J>>)).handler

\* the status code the first Renderer call of the operation in op was given
PassedStatus == out.calls[1].httpStatus

C5_HelperRenderDelegates ==
    op = "handlerHelper.Render" => (depth <= 1 /\ ~crashed)

\* the text of s before its first sep, all of s when it has none
TextBefore(s, sep) ==
    IF \E i \in 1..Len(s) : s[i] = sep
    THEN SubSeq(s, 1, (CHOOSE i \in 1..Len(s) :
                          s[i] = sep /\ \A j \in 1..(i-1) : s[j] # sep) - 1)
    ELSE s

\* C6: the lookup key of a candidate is its text before the first ";", untrimmed;
\* Render answers 406 exactly when no such text is a registry key, and otherwise
\* dispatches to the binding of the first one that is.
C6_KeyIsTextBeforeSemicolon ==
    op = "Render" =>
        LET cands == Split(in.accepts, ",")
            key(i) == TextBefore(cands[i], ";")
            hits  == {i \in 1..Len(cands) : key(i) \in DOMAIN register}
        IN  /\ hits = {} => (out.calls[1].r = DefaultJSON /\ PassedStatus = 406)
            /\ \A i \in hits :
                   (\A j \in hits : i <= j) =>
                       (out.calls[1].r = register[key(i)] /\ PassedStatus = in.httpStatus)

\* C6 witness: " */*" is not registered although "*/*" is, so the first candidate is
\* passed over, and "application/json;q=0.1" is served by the binding of
\* "application/json"
C6_Witness ==
    /\ op = "Render"
    /\ in.accepts = <<" ", W, ",", J, ";", Q1>>
    /\ <<" ", W>> \notin DOMAIN register
    /\ register[<<J>>] # register[<<W>>]
    /\ out.calls[1].r = register[<<J>>]

\* the Renderer call that wrote the response of the operation in op
Served == Last(out.calls)

\* C7: a run of the JSON renderer sets Content-Type and Date, then writes the
\* requested status, then the body; when the payload cannot be serialized it
\* returns an error, writes no body, and headers and requested status stay.
C7_JSONOrder ==
    (out.calls # <<>> /\ Served.r \in {"JSON", DefaultJSON}) =>
        LET head == << <<"Header.Set", "Content-Type">>, <<"Header.Set", "Date">>,
                       <<"WriteHeader">> >>
        IN  /\ out.w.header["Content-Type"] = <<"application/json;charset=utf-8">>
            /\ "Date" \in DOMAIN out.w.header
            /\ out.w.status = Served.httpStatus
            /\ IF Served.obj.kind = "chan"
               THEN out.err # Nil /\ out.w.log = head /\ out.w.body = <<>>
               ELSE out.err = Nil /\ out.w.log = Append(head, <<"Write">>)
                                  /\ out.w.body # <<>>

\* C7 witness: Render picked the JSON renderer for a payload that has no JSON
\* form; the error came back and the caller's status is on the response
C7_Witness ==
    /\ op = "Render"
    /\ Served.r = "JSON"
    /\ in.obj.kind = "chan"
    /\ out.err # Nil
    /\ out.w.status = in.httpStatus

\* "[a b c]": the arguments in order, a space between neighbours, in brackets
Bracketed(args) ==
    <<"[">> \o [i \in 1..(IF Len(args) = 0 THEN 0 ELSE 2 * Len(args) - 1) |->
                   IF i % 2 = 1 THEN args[(i + 1) \div 2] ELSE " "] \o <<"]">>

\* C8: a 4xx or 5xx operation passes one Error whose message is its arguments in
\* order, bracketed and space-joined; a 2xx operation passes the caller's payload;
\* each calls the wrapped renderer once and returns the error of that call.
C8_PayloadAndResult ==
    op \in StatusOps =>
        /\ out.calls[1].by = "handlerHelper"
        /\ \A i \in 2..Len(out.calls) : out.calls[i].by # "handlerHelper"
        /\ out.calls[1].r = in.h.r
        /\ out.calls[1].obj = IF op \in OpsErr
                              THEN [kind |-> "Error", Message |-> Bracketed(in.x)]
                              ELSE in.x
        /\ out.err = out.calls[1].ret

\* C8 witness: BadRequest with two different arguments, served as JSON
C8_Witness ==
    /\ op = "StatusBadRequest"
    /\ in.x = <<"missing", "field">>
    /\ Served.r = "JSON"
    /\ out.w.body = <<"{\"message\":\"", "[", "missing", " ", "field", "]", "\"}", "\n">>

\* the same response but for the Date header, and the same returned error
SameButDate(a, b) ==
    /\ a.err = b.err
    /\ a.w.status = b.w.status
    /\ a.w.body = b.w.body
    /\ DOMAIN a.w.header = DOMAIN b.w.header
    /\ \A k \in DOMAIN a.w.header \ {"Date"} : a.w.header[k] = b.w.header[k]

\* C9: a status operation called a second time with the same request and
\* arguments on a fresh response stream, with no Register in between, gives the
\* same status, headers other than Date, body and returned error as the first.
C9_SecondCallSame ==
    (op \in StatusOps /\ prev # <<>>) => SameButDate(prev[1], out)

\* C9 witness: the default helper answered 406 twice, at different times
C9_Witness ==
    /\ op \in StatusOps /\ prev # <<>>
    /\ in.h = DefaultStatusRenderer
    /\ out.w.status = 406
    /\ prev[1].w.header["Date"] # out.w.header["Date"]

\* C10: the registry keys are the strings of the registration order list, and
\* "application/json" and "*/*" are among them.
C10_KeysAreOrderList ==
    /\ DOMAIN register =
           {registeredContentType[i] : i \in 1..Len(registeredContentType)}
    /\ <<J>> \in DOMAIN register
    /\ <<W>> \in DOMAIN register

\* C10 witness: after Register calls for a new and for a bound content type, a
\* Render was answered 406
C10_Witness ==
    /\ op = "Render" /\ NoHit
    /\ Cardinality(DOMAIN register) = 3
    /\ Len(registeredContentType) = 4

====
